---- MODULE Spec2Model ----
(***************************************************************************)
(* benchmark_predictor of the reranker notebooks: a controller thread that *)
(* walks the concurrency levels (steps), runs `iterations` trials per      *)
(* level, and in each trial fans num_requests calls of predictor.predict   *)
(* out to a ThreadPoolExecutor, joins them and folds the measured times    *)
(* into the report (request_counts, latencies, throughputs).               *)
(*                                                                         *)
(* time.time() is a discrete clock `now` that Tick advances. The code only *)
(* subtracts readings taken within one trial, so the clock is read         *)
(* relative to the trial's epoch and stands still between trials. Numbers  *)
(* the code computes by division are exact rationals <<n, d>>, and np.mean *)
(* of an empty list is NaN.                                                *)
(***************************************************************************)
EXTENDS Integers, Sequences, FiniteSets, TLC

\* ------------------------------------------------------------ bounds
MaxLevel == 2      \* largest concurrency level an input may hold
MaxSteps == 2      \* longest input sequence of levels
MaxIter == 2       \* largest trial count (iterations)
MaxWork == 3       \* most requests a run may be asked to send
MaxTime == 2       \* longest a trial may last, in clock ticks
MaxExponent == 9   \* largest min_requests / max_requests a notebook is given
MaxStride == 2     \* largest step_size a notebook is given

\* ------------------------------------------------------------ configuration
\* retries={"mode": "standard", "total_max_attempts": 20} of the runtime client
TotalMaxAttempts == 20

\* ------------------------------------------------------------ numbers
NaN == "nan"

\* Euclid's algorithm on a pair of numbers.
Euclid[p \in Int \X Int] ==
    IF p[2] = 0 THEN p[1] ELSE Euclid[<<p[2], p[1] % p[2]>>]

GCD(a, b) == Euclid[<<a, b>>]

\* The pair p = <<n, d>> divided through by its greatest common divisor.
LowestTerms[p \in Int \X Int] ==
    LET g == Euclid[p] IN IF g = 0 THEN <<0, 1>> ELSE <<p[1] \div g, p[2] \div g>>

\* The rational n/d in lowest terms, d > 0.
Rat(n, d) == LowestTerms[<<n, d>>]

RAdd(x, y) == Rat(x[1] * y[2] + y[1] * x[2], x[2] * y[2])

RECURSIVE RSum(_)
RSum(s) == IF s = <<>> THEN <<0, 1>> ELSE RAdd(Head(s), RSum(Tail(s)))

\* np.mean over a list of numbers: NaN (with a warning, no exception) when
\* the list is empty, NaN when an element is NaN.
Mean(s) ==
    IF s = <<>> \/ (\E i \in 1..Len(s) : s[i] = NaN) THEN NaN
    ELSE LET t == RSum(s) IN Rat(t[1], t[2] * Len(s))

RECURSIVE SumSeq(_)
SumSeq(s) == IF s = <<>> THEN 0 ELSE Head(s) + SumSeq(Tail(s))

\* ------------------------------------------------------------ inputs
Levels == 0..MaxLevel

RECURSIVE SeqsUpTo(_, _)
SeqsUpTo(S, n) ==
    IF n = 0 THEN {<<>>}
    ELSE LET shorter == SeqsUpTo(S, n - 1)
         IN shorter \cup {Append(s, x) : s \in {t \in shorter : Len(t) = n - 1}, x \in S}

Payloads == {"null", "payload"}

VARIABLES
    steps,            \* argument: the concurrency levels
    iterations,       \* argument: trials per level
    payload,          \* argument: the request payload
    pc,               \* where the controlling thread is
    level_idx,        \* position of the for loop over steps
    num_requests,     \* the loop variable of that loop
    iter_idx,         \* trials of this level completed
    start_time,       \* the trial's start timestamp
    total_time,       \* the trial's elapsed wall-clock time
    max_workers,      \* size of the trial's ThreadPoolExecutor
    futures,          \* the trial's futures, in submission order
    latencies_batch,  \* results collected from as_completed
    exc,              \* exception travelling out of the with block
    iter_latencies, iter_throughputs,
    latencies, throughputs, request_counts,
    error,            \* the exception benchmark_predictor ended with
    now,              \* time.time()
    invocations,      \* predictor.predict calls issued in the run
    level_calls,      \* predictor.predict calls issued in this level
    failures,         \* predictor.predict calls that raised
    trial_no,         \* trials started in the run
    cell,             \* the notebook cell the kernel runs next
    endpoint,         \* status of the endpoint deploy created
    min_requests, max_requests, step_size,   \* the benchmark cell's settings
    invoked,          \* <<cell, endpoint status>> of the invocations issued
    deployment_type,  \* which deployment the notebook is run for
    bound,            \* the handle names bound in the kernel
    nb_errors,        \* the errors cells have ended with
    client_batch_size,   \* the benchmark cell's setting, 0 before it is set
    items,            \* items to rerank in the benchmark payload
    recorded          \* the client_batch_size column of the benchmark table

settings == <<min_requests, max_requests, step_size>>
batching == <<client_batch_size, items, recorded>>
notebook == <<cell, endpoint, deployment_type, bound, nb_errors, settings, batching,
              invoked>>
args == <<steps, iterations, payload>>
loop == <<level_idx, num_requests, iter_idx>>
trial == <<start_time, total_time, max_workers, exc>>
accum == <<iter_latencies, iter_throughputs>>
report == <<latencies, throughputs, request_counts>>
counters == <<invocations, level_calls, failures, trial_no>>

harness == <<pc, loop, trial, futures, latencies_batch, accum, report, error,
             now, counters>>

vars == <<notebook, args, harness>>

\* benchmark_predictor called from the benchmark cell, on an endpoint that is
\* in service.
CalledFromBenchmarkCell ==
    /\ cell = "benchmark_run"
    /\ endpoint = "InService"
    /\ min_requests = 0
    /\ max_requests = 0
    /\ step_size = 1
    /\ invoked = {}
    /\ deployment_type = "tei"
    /\ bound = {"model_reranker_predictor"}
    /\ nb_errors = {}
    /\ client_batch_size = 0
    /\ items = 0
    /\ recorded = <<>>

Init ==
    /\ steps \in SeqsUpTo(Levels, MaxSteps)
    /\ iterations \in 0..MaxIter
    /\ SumSeq(steps) * iterations <= MaxWork
    /\ payload \in Payloads
    /\ pc = "for_steps"
    /\ level_idx = 0
    /\ num_requests = 0
    /\ iter_idx = 0
    /\ start_time = 0
    /\ total_time = 0
    /\ max_workers = 0
    /\ futures = <<>>
    /\ latencies_batch = <<>>
    /\ exc = "none"
    /\ iter_latencies = <<>>
    /\ iter_throughputs = <<>>
    /\ latencies = <<>>
    /\ throughputs = <<>>
    /\ request_counts = <<>>
    /\ error = "none"
    /\ now = 0
    /\ invocations = 0
    /\ level_calls = 0
    /\ failures = 0
    /\ trial_no = 0
    /\ CalledFromBenchmarkCell

\* ------------------------------------------------------------ the clock
InTrial == pc \in {"submit", "collect", "exit_with", "after_with"}

Tick ==
    /\ InTrial
    /\ now < MaxTime
    /\ now' = now + 1
    /\ UNCHANGED <<notebook, args, pc, loop, trial, futures, latencies_batch, accum, report,
                   error, counters>>

\* ------------------------------------------------------------ controller
\* Variant: the levels are taken from the end of the list.
NextLevelReversed ==
    /\ pc = "for_steps"
    /\ level_idx < Len(steps)
    /\ level_idx' = level_idx + 1
    /\ num_requests' = steps[Len(steps) - level_idx]
    /\ iter_latencies' = <<>>
    /\ iter_throughputs' = <<>>
    /\ iter_idx' = 0
    /\ level_calls' = 0
    /\ pc' = "for_iter"
    /\ UNCHANGED <<notebook, args, trial, futures, latencies_batch, report, error, now,
                   invocations, failures, trial_no>>

\* Variant: the accumulators are created once, before the loop over levels.
NextLevelKeepAccum ==
    /\ pc = "for_steps"
    /\ level_idx < Len(steps)
    /\ level_idx' = level_idx + 1
    /\ num_requests' = steps[level_idx + 1]
    /\ iter_idx' = 0
    /\ level_calls' = 0
    /\ pc' = "for_iter"
    /\ UNCHANGED <<notebook, args, trial, futures, latencies_batch, accum, report,
                   error, now, invocations, failures, trial_no>>

\* for num_requests in steps: the next level, with fresh accumulators.
NextLevel ==
    /\ pc = "for_steps"
    /\ level_idx < Len(steps)
    /\ level_idx' = level_idx + 1
    /\ num_requests' = steps[level_idx + 1]
    /\ iter_latencies' = <<>>
    /\ iter_throughputs' = <<>>
    /\ iter_idx' = 0
    /\ level_calls' = 0
    /\ pc' = "for_iter"
    /\ UNCHANGED <<notebook, args, trial, futures, latencies_batch, report, error, now,
                   invocations, failures, trial_no>>

\* Variant: a run that measured nothing is rejected instead of returned.
ReturnNonEmpty ==
    /\ pc = "for_steps"
    /\ level_idx = Len(steps)
    /\ IF request_counts = <<>>
       THEN pc' = "raised" /\ error' = "ValueError"
       ELSE pc' = "returned" /\ UNCHANGED error
    /\ UNCHANGED <<notebook, args, loop, trial, futures, latencies_batch, accum, report,
                   now, counters>>

\* return request_counts, latencies, throughputs
Return ==
    /\ pc = "for_steps"
    /\ level_idx = Len(steps)
    /\ pc' = "returned"
    /\ UNCHANGED <<notebook, args, loop, trial, futures, latencies_batch, accum, report,
                   error, now, counters>>

\* What the caller of benchmark_predictor has received: the three lists of
\* the return statement once it has run, nothing before and nothing when the
\* call ended with an exception.
ReturnValue ==
    IF pc = "returned" THEN <<request_counts, latencies, throughputs>> ELSE <<>>

\* ------------------------------------------------------------ a trial
\* What executor.submit(send_request) returns: a future whose work item is
\* queued. calls counts the predictor.predict calls made for it, attempts the
\* HTTP attempts the runtime client made within the call, data is the payload
\* handed to predict, t0 the request's own start_time (a local of
\* send_request, gone when the call ends), timed whether send_request got as
\* far as computing a latency (lat is meaningful only then).
NewFuture == [st |-> "pending", t0 |-> 0, lat |-> 0, timed |-> FALSE, calls |-> 0,
              attempts |-> 0, data |-> "none", got |-> FALSE]

Running == {i \in 1..Len(futures) : futures[i].st = "running"}
Pending == {i \in 1..Len(futures) : futures[i].st = "pending"}
Finished == {i \in 1..Len(futures) : futures[i].st \in {"done", "failed"}}

\* Variant: a pool of one thread, whatever the level.
PoolSizeFixed(n) == 1

\* ThreadPoolExecutor(max_workers=num_requests): the pool's size.
PoolSize(n) == n

\* ThreadPoolExecutor rejects max_workers <= 0 with a ValueError.
ValidPool(n) == n > 0

\* for _ in range(iterations): start_time = time.time(); with
\* ThreadPoolExecutor(max_workers=num_requests) as executor:
StartTrial ==
    /\ pc = "for_iter"
    /\ iter_idx < iterations
    /\ ValidPool(num_requests)
    /\ now' = 0
    /\ start_time' = now'
    /\ max_workers' = PoolSize(num_requests)
    /\ futures' = <<>>
    /\ exc' = "none"
    /\ trial_no' = trial_no + 1
    /\ pc' = "submit"
    /\ UNCHANGED <<notebook, args, loop, total_time, latencies_batch, accum, report, error,
                   invocations, level_calls, failures>>

\* The same, at a level that is not positive: the executor's constructor
\* raises and nothing catches it.
StartTrialInvalid ==
    /\ pc = "for_iter"
    /\ iter_idx < iterations
    /\ ~ValidPool(num_requests)
    /\ now' = 0
    /\ start_time' = now'
    /\ trial_no' = trial_no + 1
    /\ error' = "ValueError"
    /\ pc' = "raised"
    /\ UNCHANGED <<notebook, args, loop, total_time, max_workers, exc, futures,
                   latencies_batch, accum, report, invocations, level_calls,
                   failures>>

\* Variant: range(num_requests + 1).
SubmitCountInclusive(n) == n + 1

\* How many futures the list comprehension submits: range(num_requests).
SubmitCount(n) == n

\* futures = [executor.submit(send_request) for _ in range(num_requests)]
Submit ==
    /\ pc = "submit"
    /\ Len(futures) < SubmitCount(num_requests)
    /\ futures' = Append(futures, NewFuture)
    /\ IF Len(futures) + 1 = SubmitCount(num_requests)
       THEN pc' = "collect" /\ latencies_batch' = <<>>
       ELSE pc' = "submit" /\ UNCHANGED latencies_batch
    /\ UNCHANGED <<notebook, args, loop, trial, accum, report, error, now, counters>>

\* A pool thread is free to take the oldest queued work item.
CanStart(i) ==
    /\ i \in Pending
    /\ \A j \in 1..(i - 1) : j \notin Pending
    /\ Cardinality(Running) < max_workers

\* send_request: start_time = time.time(); predictor.predict(data=payload) is
\* called, and the runtime client makes its first attempt.
WorkerStart(i) ==
    /\ CanStart(i)
    /\ futures' = [futures EXCEPT ![i] =
                     [@ EXCEPT !.st = "running", !.t0 = now, !.calls = @ + 1,
                               !.attempts = 1, !.data = payload]]
    /\ invocations' = invocations + 1
    /\ level_calls' = level_calls + 1
    /\ UNCHANGED <<notebook, args, pc, loop, trial, latencies_batch, accum, report, error,
                   now, failures, trial_no>>

\* Inside predict: the attempt failed with an error the client retries and
\* attempts are left, so the client sends the request again.
WorkerRetry(i) ==
    /\ i \in Running
    /\ futures[i].attempts < TotalMaxAttempts
    /\ futures' = [futures EXCEPT ![i] = [@ EXCEPT !.attempts = @ + 1]]
    /\ UNCHANGED <<notebook, args, pc, loop, trial, latencies_batch, accum, report, error,
                   now, counters>>

\* Variant: the worker appends its latency to the shared batch itself.
WorkerReturnAppend(i) ==
    /\ i \in Running
    /\ futures' = [futures EXCEPT ![i] =
                     [@ EXCEPT !.st = "done", !.t0 = 0, !.lat = now - futures[i].t0,
                               !.timed = TRUE]]
    /\ latencies_batch' = Append(latencies_batch, now - futures[i].t0)
    /\ UNCHANGED <<notebook, args, pc, loop, trial, accum, report, error, now, counters>>

\* predict returned: latency = time.time() - start_time; return latency
WorkerReturn(i) ==
    /\ i \in Running
    /\ futures' = [futures EXCEPT ![i] =
                     [@ EXCEPT !.st = "done", !.t0 = 0, !.lat = now - futures[i].t0,
                               !.timed = TRUE]]
    /\ UNCHANGED <<notebook, args, pc, loop, trial, latencies_batch, accum, report, error,
                   now, counters>>

\* Variant: send_request calls predict again when it raised.
WorkerRaiseRetry(i) ==
    /\ i \in Running
    /\ futures[i].calls < 3
    /\ futures' = [futures EXCEPT ![i] = [@ EXCEPT !.calls = @ + 1, !.attempts = 1]]
    /\ invocations' = invocations + 1
    /\ level_calls' = level_calls + 1
    /\ UNCHANGED <<notebook, args, pc, loop, trial, latencies_batch, accum, report, error,
                   now, failures, trial_no>>

\* predict raised: send_request has no handler, the exception is stored in
\* the future and no latency is computed.
WorkerRaise(i) ==
    /\ i \in Running
    /\ futures' = [futures EXCEPT ![i] = [@ EXCEPT !.st = "failed", !.t0 = 0]]
    /\ failures' = failures + 1
    /\ UNCHANGED <<notebook, args, pc, loop, trial, latencies_batch, accum, report, error,
                   now, invocations, level_calls, trial_no>>

\* Variant: result() wrapped in a handler that drops a failed request.
CollectSwallow(i) ==
    /\ pc = "collect"
    /\ i \in Finished
    /\ ~futures[i].got
    /\ futures' = [futures EXCEPT ![i] = [@ EXCEPT !.got = TRUE]]
    /\ IF futures[i].st = "failed"
       THEN UNCHANGED latencies_batch
       ELSE latencies_batch' = Append(latencies_batch, futures[i].lat)
    /\ exc' = exc
    /\ pc' = IF \A j \in 1..Len(futures) : futures'[j].got
             THEN "exit_with" ELSE "collect"
    /\ UNCHANGED <<notebook, args, loop, start_time, total_time, max_workers, accum, report,
                   error, now, counters>>

\* Variant: the controller takes the first completed result and moves on.
CollectFirstCompleted(i) ==
    /\ pc = "collect"
    /\ i \in Finished
    /\ ~futures[i].got
    /\ futures' = [futures EXCEPT ![i] = [@ EXCEPT !.got = TRUE]]
    /\ IF futures[i].st = "failed"
       THEN exc' = "EndpointError" /\ UNCHANGED latencies_batch
       ELSE exc' = exc /\ latencies_batch' = Append(latencies_batch, futures[i].lat)
    /\ pc' = "exit_with"
    /\ UNCHANGED <<notebook, args, loop, start_time, total_time, max_workers, accum, report,
                   error, now, counters>>

\* Variant: the results are gathered in a set, so equal latencies collapse.
CollectIntoSet(i) ==
    /\ pc = "collect"
    /\ i \in Finished
    /\ ~futures[i].got
    /\ futures' = [futures EXCEPT ![i] = [@ EXCEPT !.got = TRUE]]
    /\ IF futures[i].st = "failed"
       THEN /\ exc' = "EndpointError"
            /\ pc' = "exit_with"
            /\ UNCHANGED latencies_batch
       ELSE /\ latencies_batch' =
                 IF \E k \in 1..Len(latencies_batch) :
                        latencies_batch[k] = futures[i].lat
                 THEN latencies_batch
                 ELSE Append(latencies_batch, futures[i].lat)
            /\ exc' = exc
            /\ pc' = IF \A j \in 1..Len(futures) : futures'[j].got
                     THEN "exit_with" ELSE "collect"
    /\ UNCHANGED <<notebook, args, loop, start_time, total_time, max_workers, accum, report,
                   error, now, counters>>

\* Variant: the controller takes only latencies, and goes on waiting for
\* num_requests of them.
CollectSuccessOnly(i) ==
    /\ pc = "collect"
    /\ i \in Finished
    /\ futures[i].st = "done"
    /\ ~futures[i].got
    /\ futures' = [futures EXCEPT ![i] = [@ EXCEPT !.got = TRUE]]
    /\ latencies_batch' = Append(latencies_batch, futures[i].lat)
    /\ exc' = exc
    /\ pc' = IF Len(latencies_batch) + 1 = Len(futures)
             THEN "exit_with" ELSE "collect"
    /\ UNCHANGED <<notebook, args, loop, start_time, total_time, max_workers,
                   accum, report, error, now, counters>>

\* One round of [future.result() for future in as_completed(futures)]:
\* as_completed yields any finished future not yet yielded; result() returns
\* the latency or re-raises the request's exception, which ends the
\* comprehension.
Collect(i) ==
    /\ pc = "collect"
    /\ i \in Finished
    /\ ~futures[i].got
    /\ futures' = [futures EXCEPT ![i] = [@ EXCEPT !.got = TRUE]]
    /\ IF futures[i].st = "failed"
       THEN /\ exc' = "EndpointError"
            /\ pc' = "exit_with"
            /\ UNCHANGED latencies_batch
       ELSE /\ latencies_batch' = Append(latencies_batch, futures[i].lat)
            /\ exc' = exc
            /\ pc' = IF Len(latencies_batch) + 1 = Len(futures)
                     THEN "exit_with" ELSE "collect"
    /\ UNCHANGED <<notebook, args, loop, start_time, total_time, max_workers, accum, report,
                   error, now, counters>>

\* Variant: shutdown(wait=False).
JoinedNoWait == TRUE

\* executor.__exit__ is shutdown(wait=True): it returns once every submitted
\* work item has run to its end.
Joined == \A i \in 1..Len(futures) : futures[i].st \in {"done", "failed"}

\* Variant: on an exception the pool is shut down with its queued work items
\* cancelled, and only the requests already running are waited for.
ExitWithCancel ==
    /\ pc = "exit_with"
    /\ IF exc # "none"
       THEN Running = {} /\ pc' = "raised" /\ error' = exc
       ELSE Joined /\ pc' = "after_with" /\ UNCHANGED error
    /\ UNCHANGED <<notebook, args, loop, trial, futures, latencies_batch, accum, report,
                   now, counters>>

\* Variant: the failure of a request is caught around the with block and the
\* levels measured so far are returned.
ExitWithPartial ==
    /\ pc = "exit_with"
    /\ Joined
    /\ IF exc # "none"
       THEN pc' = "returned" /\ UNCHANGED error
       ELSE pc' = "after_with" /\ UNCHANGED error
    /\ UNCHANGED <<notebook, args, loop, trial, futures, latencies_batch, accum,
                   report, now, counters>>

\* Leaving the with block; an exception raised inside it goes on to the
\* caller of benchmark_predictor.
ExitWith ==
    /\ pc = "exit_with"
    /\ Joined
    /\ IF exc # "none"
       THEN pc' = "raised" /\ error' = exc
       ELSE pc' = "after_with" /\ UNCHANGED error
    /\ UNCHANGED <<notebook, args, loop, trial, futures, latencies_batch, accum, report,
                   now, counters>>

\* Variant: the latency of the request collected last stands for the time
\* the trial took.
ElapsedOfLast == latencies_batch[Len(latencies_batch)]

\* time.time() - start_time
Elapsed == now - start_time

\* Variant: np.sum in place of np.mean.
TrialLatencySum(batch) == RSum([k \in 1..Len(batch) |-> Rat(batch[k], 1)])

\* latency = np.mean(latencies_batch)
TrialLatency(batch) == Mean([k \in 1..Len(batch) |-> Rat(batch[k], 1)])

\* throughput = num_requests / total_time
TrialThroughput(n, t) == Rat(n, t)

\* The rest of the trial's body.
Compute ==
    /\ pc = "after_with"
    /\ total_time' = Elapsed
    /\ total_time' # 0
    /\ iter_latencies' = Append(iter_latencies, TrialLatency(latencies_batch))
    /\ iter_throughputs' = Append(iter_throughputs,
                                  TrialThroughput(num_requests, total_time'))
    /\ iter_idx' = iter_idx + 1
    /\ pc' = "for_iter"
    /\ UNCHANGED <<notebook, args, level_idx, num_requests, start_time, max_workers, exc,
                   futures, latencies_batch, report, error, now, counters>>

\* num_requests / total_time with the two clock readings equal: Python
\* raises ZeroDivisionError.
ComputeZeroDivision ==
    /\ pc = "after_with"
    /\ total_time' = Elapsed
    /\ total_time' = 0
    /\ error' = "ZeroDivisionError"
    /\ pc' = "raised"
    /\ UNCHANGED <<notebook, args, loop, start_time, max_workers, exc, futures,
                   latencies_batch, accum, report, now, counters>>

\* Variant: a report keyed by level, which keeps one entry per distinct level.
EndLevelKeyed ==
    /\ pc = "for_iter"
    /\ iter_idx >= iterations
    /\ IF \E k \in 1..Len(request_counts) : request_counts[k] = num_requests
       THEN UNCHANGED report
       ELSE /\ latencies' = Append(latencies, Mean(iter_latencies))
            /\ throughputs' = Append(throughputs, Mean(iter_throughputs))
            /\ request_counts' = Append(request_counts, num_requests)
    /\ pc' = "for_steps"
    /\ UNCHANGED <<notebook, args, loop, trial, futures, latencies_batch, accum, error, now,
                   counters>>

\* Variant: the level reports its last trial's latency and throughput.
EndLevelLastTrial ==
    /\ pc = "for_iter"
    /\ iter_idx >= iterations
    /\ latencies' = Append(latencies,
                           IF iter_latencies = <<>> THEN NaN
                           ELSE iter_latencies[Len(iter_latencies)])
    /\ throughputs' = Append(throughputs,
                             IF iter_throughputs = <<>> THEN NaN
                             ELSE iter_throughputs[Len(iter_throughputs)])
    /\ request_counts' = Append(request_counts, num_requests)
    /\ pc' = "for_steps"
    /\ UNCHANGED <<notebook, args, loop, trial, futures, latencies_batch, accum, error, now,
                   counters>>

\* After the trials of a level: the means over the trials go to the report.
EndLevel ==
    /\ pc = "for_iter"
    /\ iter_idx >= iterations
    /\ latencies' = Append(latencies, Mean(iter_latencies))
    /\ throughputs' = Append(throughputs, Mean(iter_throughputs))
    /\ request_counts' = Append(request_counts, num_requests)
    /\ pc' = "for_steps"
    /\ UNCHANGED <<notebook, args, loop, trial, futures, latencies_batch, accum, error, now,
                   counters>>

\* Positions in a trial's list of futures.
Slots == 1..(MaxLevel + 1)

\* The run as the harness sees it: predict is one call that returns or
\* raises.
Next ==
    \/ Tick
    \/ NextLevel
    \/ Return
    \/ StartTrial
    \/ StartTrialInvalid
    \/ Submit
    \/ \E i \in Slots : WorkerStart(i)
    \/ \E i \in Slots : WorkerReturn(i)
    \/ \E i \in Slots : WorkerRaise(i)
    \/ \E i \in Slots : Collect(i)
    \/ ExitWith
    \/ Compute
    \/ ComputeZeroDivision
    \/ EndLevel

Spec == Init /\ [][Next]_vars

\* The same run with the runtime client's attempts made visible, on inputs of
\* one level, one trial and at most two requests.
InitTransport ==
    Init /\ Len(steps) <= 1 /\ iterations <= 1 /\ SumSeq(steps) <= 2

NextTransport == Next \/ \E i \in Slots : WorkerRetry(i)

SpecTransport == InitTransport /\ [][NextTransport]_vars
\* The steps of the thread that called benchmark_predictor.
Controller ==
    \/ NextLevel
    \/ Return
    \/ StartTrial
    \/ StartTrialInvalid
    \/ Submit
    \/ \E i \in Slots : Collect(i)
    \/ ExitWith
    \/ Compute
    \/ ComputeZeroDivision
    \/ EndLevel

\* The run under fair scheduling: the controlling thread runs when it can, a
\* pool thread takes the work item it is free to take, and every
\* predictor.predict call eventually returns or raises.
Fairness ==
    /\ WF_vars(Controller)
    /\ WF_vars(\E i \in Slots : WorkerStart(i))
    /\ WF_vars(\E i \in Slots : WorkerReturn(i) \/ WorkerRaise(i))

\* Runs that send at most two requests.
InitFair == Init /\ SumSeq(steps) * iterations <= 2

SpecFair == InitFair /\ [][Next]_vars /\ Fairness

\* ------------------------------------------------------------ the notebook
\* The cells of a notebook, run top to bottom by the kernel, around an
\* endpoint that the hosting platform creates on its own time.
\* deployment_type is the deploy snippet chosen in the first notebook ("djl",
\* "js", "tei"); "inf2" stands for the inf2 notebook, which has one deployment.
DeploymentTypes == {"djl", "js", "tei", "inf2"}

\* The name the deploy step binds the predictor to.
DeployHandle(dt) == "model_reranker_predictor"

\* The name the test cell calls predict on.
TestHandle(dt) ==
    IF dt = "inf2" THEN "model_bge_rerank" ELSE "model_reranker_predictor"

\* The name the benchmark cell passes to benchmark_predictor.
BenchmarkHandle(dt) ==
    IF dt = "inf2" THEN "model_bge_rerank" ELSE "model_reranker_predictor"

\* The name the cleanup cell calls delete_endpoint on.
CleanupHandle(dt) ==
    IF dt = "inf2" THEN "model_bge_rerank_predictor" ELSE "model_reranker_predictor"

RECURSIVE Pow2(_)
Pow2(x) == IF x = 0 THEN 1 ELSE 2 * Pow2(x - 1)

\* range(lo, hi, st) for st > 0: lo, lo + st, ... below hi.
Range(lo, hi, st) ==
    LET n == IF hi <= lo THEN 0 ELSE (hi - lo + st - 1) \div st
    IN [k \in 1..n |-> lo + (k - 1) * st]

\* list(map(lambda x: 2**x, range(min_requests, max_requests, step_size)))
ConfiguredSteps(lo, hi, st) ==
    LET r == Range(lo, hi, st) IN [k \in 1..Len(r) |-> Pow2(r[k])]

\* iterations = 20, in the inf2 notebook iterations = 5
ConfiguredIterations(dt) == IF dt = "inf2" THEN 5 ELSE 20

\* client_batch_size = 32, in the inf2 notebook client_batch_size = 8
ConfiguredBatchSize(dt) == IF dt = "inf2" THEN 8 ELSE 32

\* Items in the list literal that the benchmark payload repeats: one passage
\* for djl and tei, one pair for inf2, and for js an empty list of documents.
LiteralItems(dt) == IF dt = "js" THEN 0 ELSE 1

\* len(literal * n): a list repeated n times.
RepeatedLen(len, n) == IF n <= 0 THEN 0 ELSE len * n

InitNotebook ==
    /\ cell = "deploy"
    /\ endpoint = "none"
    /\ deployment_type \in DeploymentTypes
    /\ bound = {}
    /\ nb_errors = {}
    /\ min_requests \in 0..MaxExponent
    /\ max_requests \in 0..MaxExponent
    /\ step_size \in 1..MaxStride
    /\ client_batch_size = 0
    /\ items = 0
    /\ recorded = <<>>
    /\ invoked = {}
    /\ steps = <<>>
    /\ iterations = 0
    /\ payload = "payload"
    /\ pc = "for_steps"
    /\ level_idx = 0
    /\ num_requests = 0
    /\ iter_idx = 0
    /\ start_time = 0
    /\ total_time = 0
    /\ max_workers = 0
    /\ futures = <<>>
    /\ latencies_batch = <<>>
    /\ exc = "none"
    /\ iter_latencies = <<>>
    /\ iter_throughputs = <<>>
    /\ latencies = <<>>
    /\ throughputs = <<>>
    /\ request_counts = <<>>
    /\ error = "none"
    /\ now = 0
    /\ invocations = 0
    /\ level_calls = 0
    /\ failures = 0
    /\ trial_no = 0

\* A cell ended with an error: Run All stops there, a reader running the
\* cells by hand may go on to the cell after it.
AfterError(next) == cell' \in {"stopped", next}

\* model.deploy(..., wait=False): the endpoint's creation is requested and
\* deploy returns the predictor without waiting for it.
DeployCell ==
    /\ cell = "deploy"
    /\ endpoint' = "Creating"
    /\ bound' = bound \cup {DeployHandle(deployment_type)}
    /\ cell' = "test"
    /\ UNCHANGED <<deployment_type, nb_errors, settings, batching, invoked, args,
                   harness>>

\* The platform finishes creating the endpoint.
EndpointInService ==
    /\ endpoint = "Creating"
    /\ endpoint' = "InService"
    /\ UNCHANGED <<cell, deployment_type, bound, nb_errors, settings, batching,
                   invoked, args, harness>>

\* The test cell: <handle>.predict(payload). An unbound name is a NameError;
\* otherwise the endpoint is invoked as it is, and an endpoint not in service
\* rejects the invocation.
TestCell ==
    /\ cell = "test"
    /\ IF TestHandle(deployment_type) \notin bound
       THEN /\ nb_errors' = nb_errors \cup {"NameError"}
            /\ AfterError("benchmark")
            /\ UNCHANGED invoked
       ELSE /\ invoked' = invoked \cup {<<"test", endpoint>>}
            /\ IF endpoint = "InService"
               THEN cell' = "benchmark" /\ UNCHANGED nb_errors
               ELSE /\ nb_errors' = nb_errors \cup {"EndpointError"}
                    /\ AfterError("benchmark")
    /\ UNCHANGED <<endpoint, deployment_type, bound, settings, batching, args,
                   harness>>

\* The benchmark cell up to the call: its settings, the levels, the payload.
BenchmarkConfig ==
    /\ cell = "benchmark"
    /\ steps' = ConfiguredSteps(min_requests, max_requests, step_size)
    /\ iterations' = ConfiguredIterations(deployment_type)
    /\ client_batch_size' = ConfiguredBatchSize(deployment_type)
    /\ items' = RepeatedLen(LiteralItems(deployment_type), client_batch_size')
    /\ payload' = "payload"
    /\ cell' = "benchmark_run"
    /\ UNCHANGED <<endpoint, deployment_type, bound, nb_errors, settings,
                   recorded, invoked, harness>>

\* benchmark_predictor(<handle>, payload, steps, iterations), taken as one
\* step, and the table row for each level,
\* 'client_batch_size': [client_batch_size] * len(request_counts).
BenchmarkRun ==
    /\ cell = "benchmark_run"
    /\ IF BenchmarkHandle(deployment_type) \notin bound
       THEN /\ nb_errors' = nb_errors \cup {"NameError"}
            /\ AfterError("cleanup")
            /\ UNCHANGED <<invoked, recorded>>
       ELSE IF steps = <<>> \/ endpoint = "InService"
       THEN /\ invoked' = IF steps = <<>> THEN invoked
                          ELSE invoked \cup {<<"benchmark", endpoint>>}
            /\ recorded' = [k \in 1..Len(steps) |-> client_batch_size]
            /\ cell' = "cleanup"
            /\ UNCHANGED nb_errors
       ELSE /\ invoked' = invoked \cup {<<"benchmark", endpoint>>}
            /\ nb_errors' = nb_errors \cup {"EndpointError"}
            /\ AfterError("cleanup")
            /\ UNCHANGED recorded
    /\ UNCHANGED <<endpoint, deployment_type, bound, settings, client_batch_size,
                   items, args, harness>>

\* The cleanup cell: <handle>.delete_endpoint()
CleanupCell ==
    /\ cell = "cleanup"
    /\ IF CleanupHandle(deployment_type) \notin bound
       THEN nb_errors' = nb_errors \cup {"NameError"} /\ UNCHANGED endpoint
       ELSE endpoint' = "Deleted" /\ UNCHANGED nb_errors
    /\ cell' = "end"
    /\ UNCHANGED <<deployment_type, bound, settings, batching, invoked, args,
                   harness>>

NextNotebook ==
    \/ DeployCell
    \/ EndpointInService
    \/ TestCell
    \/ BenchmarkConfig
    \/ BenchmarkRun
    \/ CleanupCell

SpecNotebook == InitNotebook /\ [][NextNotebook]_vars

\* ------------------------------------------------------------ properties
Terminated == pc \in {"returned", "raised"}

Quiet == Running \cup Pending = {}

RECURSIVE SumLat(_)
SumLat(n) == IF n = 0 THEN 0 ELSE futures[n].lat + SumLat(n - 1)

Last(s) == s[Len(s)]

\* C1: the report has one entry per input level, in input order: at every
\* moment request_counts is the prefix of steps already run, latencies and
\* throughputs are as long as it, and on return request_counts equals steps.
ReportFollowsSteps ==
    /\ Len(latencies) = Len(request_counts)
    /\ Len(throughputs) = Len(request_counts)
    /\ Len(request_counts) <= Len(steps)
    /\ request_counts = SubSeq(steps, 1, Len(request_counts))
    /\ pc = "returned" => request_counts = steps

\* A run over a repeated level has returned.
ReportFollowsStepsWitness ==
    /\ pc = "returned"
    /\ Len(steps) = 2
    /\ steps[1] = steps[2]
    /\ steps[1] > 0
    /\ iterations > 0

\* C2: a level that has finished issued exactly num_requests * iterations
\* predict calls, no level ever issues more, and a run that returns issued
\* iterations * sum(steps) in all.
InvocationsPerLevel ==
    /\ level_idx >= 1 => level_calls <= num_requests * iterations
    /\ (pc = "for_steps" /\ level_idx >= 1) =>
           level_calls = num_requests * iterations
    /\ pc = "returned" => invocations = iterations * SumSeq(steps)

\* A run of two different levels has returned, three calls made.
InvocationsPerLevelWitness ==
    /\ pc = "returned"
    /\ Len(steps) = 2
    /\ steps[1] # steps[2]
    /\ invocations = 3

\* C3: outside the with block no work item of the trial's pool is queued or
\* running, so when a trial starts nothing of an earlier trial is in flight.
TrialsNeverOverlap ==
    pc \notin {"submit", "collect", "exit_with"} => Quiet

\* The second trial of a run has just started, after a trial of two requests.
TrialsNeverOverlapWitness ==
    /\ trial_no = 2
    /\ pc = "submit"
    /\ futures = <<>>
    /\ invocations >= 2

\* C4: when the elapsed time is read and the trial's numbers are computed,
\* all num_requests calls have returned and all their latencies have been
\* collected; the recorded trial latency is the mean over all of them.
BarrierBeforeTiming ==
    /\ pc = "after_with" =>
           /\ Len(futures) = num_requests
           /\ \A i \in 1..Len(futures) : futures[i].st = "done"
           /\ Len(latencies_batch) = num_requests
    /\ (pc = "for_iter" /\ iter_idx >= 1) =>
           /\ Len(futures) = num_requests
           /\ Last(iter_latencies) = Rat(SumLat(num_requests), num_requests)

\* A trial of two requests with different latencies is past its barrier.
BarrierBeforeTimingWitness ==
    /\ pc = "after_with"
    /\ num_requests = 2
    /\ futures[1].lat # futures[2].lat

\* C5: in a trial the pool has num_requests threads and num_requests work
\* items are submitted, never more are in flight, and a queued work item
\* always finds a pool thread that is not running another request.
PoolSizedToLevel ==
    InTrial =>
        /\ max_workers = num_requests
        /\ Len(futures) <= num_requests
        /\ Cardinality(Running) <= num_requests
        /\ Pending # {} => Cardinality(Running) < max_workers
        /\ pc # "submit" => Len(futures) = num_requests

\* Two requests of one trial are in flight at once.
PoolSizedToLevelWitness ==
    /\ InTrial
    /\ Cardinality(Running) = 2
\* C6: a run with iterations = 0 (over at least one level) ends with an
\* error, no request sent.
ZeroTrialsRejected ==
    (iterations = 0 /\ steps # <<>> /\ Terminated) =>
        (pc = "raised" /\ invocations = 0)

BadConfig == payload = "null" \/ \E k \in 1..Len(steps) : steps[k] <= 0

\* C7: with a level that is not positive anywhere in steps, or a null
\* payload, the error comes before any network activity: no request is ever
\* sent.
ConfigErrorsBeforeNetwork ==
    BadConfig => invocations = 0

\* Every predict call that has ended so far raised.
AlwaysFailing == failures > 0 /\ invocations - Cardinality(Running) = failures

\* C8: once a predict call has raised, the controller never gets past the
\* with block: no trial result is computed, no later trial starts, the run
\* does not return, and it ends with the request's exception. When every
\* call raises this happens in the first trial, before any result exists.
FailureAborts ==
    /\ failures > 0 => pc \in {"submit", "collect", "exit_with", "raised"}
    /\ (failures > 0 /\ pc = "raised") => error = "EndpointError"
    /\ AlwaysFailing =>
           /\ trial_no = 1
           /\ iter_latencies = <<>> /\ iter_throughputs = <<>>
           /\ latencies = <<>> /\ throughputs = <<>> /\ request_counts = <<>>

\* Both requests of a first trial raised and the run ended with the error.
FailureAbortsWitness ==
    /\ pc = "raised"
    /\ error = "EndpointError"
    /\ num_requests = 2
    /\ failures = 2
    /\ AlwaysFailing

FixedDuration(d) ==
    /\ pc = "for_iter"
    /\ iter_idx >= 1
    /\ Len(futures) = num_requests
    /\ \A i \in 1..Len(futures) : futures[i].st = "done" /\ futures[i].lat = d

RLeq(x, y) == x[1] * y[2] <= y[1] * x[2]

\* C10 as stated: with every request taking d, the trial's latency is d and
\* its throughput is num_requests / d.
FixedDurationExact ==
    \A d \in 1..MaxTime :
        FixedDuration(d) =>
            /\ Last(iter_latencies) = Rat(d, 1)
            /\ Last(iter_throughputs) = Rat(num_requests, d)

\* C10, amended: with every request taking d > 0, the trial's latency is d
\* and its throughput is num_requests / total_time with total_time >= d: at
\* most num_requests / d, and equal to it exactly when total_time = d.
FixedDurationBounded ==
    \A d \in 1..MaxTime :
        FixedDuration(d) =>
            /\ Last(iter_latencies) = Rat(d, 1)
            /\ total_time >= d
            /\ Last(iter_throughputs) = Rat(num_requests, total_time)
            /\ RLeq(Last(iter_throughputs), Rat(num_requests, d))
            /\ (Last(iter_throughputs) = Rat(num_requests, d)) <=> (total_time = d)

\* Two requests of one tick each in a trial that lasted two ticks.
FixedDurationBoundedWitness ==
    /\ FixedDuration(1)
    /\ num_requests = 2
    /\ total_time = 2

\* C11: with no concurrency level to run, benchmark_predictor returns three
\* empty lists, raises nothing, and no trial is started and no request issued.
EmptyStepsEmptyReport ==
    steps = <<>> =>
        /\ invocations = 0
        /\ trial_no = 0
        /\ futures = <<>>
        /\ pc \in {"for_steps", "returned"}
        /\ error = "none"
        /\ request_counts = <<>> /\ latencies = <<>> /\ throughputs = <<>>

EmptyStepsEmptyReportWitness == steps = <<>> /\ pc = "returned"

\* How many entries of the sequence s equal v.
Count(s, v) == Cardinality({k \in 1..Len(s) : s[k] = v})

\* C12: whatever order the requests of a trial complete and are yielded in,
\* the batch the controller holds after the with block has every latency the
\* workers returned, each as often as it was returned, and the trial's mean
\* latency is the sum of the workers' latencies over the level.
BatchIsOrderFree ==
    pc = "after_with" =>
        /\ Len(latencies_batch) = num_requests
        /\ \A v \in 0..MaxTime :
              Count(latencies_batch, v) =
                  Cardinality({i \in 1..Len(futures) : futures[i].lat = v})
        /\ TrialLatency(latencies_batch) = Rat(SumLat(num_requests), num_requests)

\* The second request submitted was yielded before the first.
BatchIsOrderFreeWitness ==
    /\ pc = "after_with"
    /\ num_requests = 2
    /\ futures[1].lat # futures[2].lat
    /\ latencies_batch = <<futures[2].lat, futures[1].lat>>

\* C13 as stated: a request whose call ended, by returning or by raising, has
\* a latency measurement.
EveryCallTimed ==
    \A i \in 1..Len(futures) :
        futures[i].st \in {"done", "failed"} => futures[i].timed

\* C14 as stated: a run that completes reports one result per level, and no
\* entry of the report stands for a level without a well-defined result: the
\* report is three lists of floats and has no other way to mark a level
\* absent, so every entry is the mean over at least one completed trial.
CompletedRunWellDefined ==
    pc = "returned" =>
        /\ Len(request_counts) = Len(steps)
        /\ Len(latencies) = Len(steps)
        /\ Len(throughputs) = Len(steps)
        /\ \A k \in 1..Len(latencies) : latencies[k] # NaN
        /\ \A k \in 1..Len(throughputs) : throughputs[k] # NaN

\* x is the t-th part of the sum of the rationals in s.
IsMeanOf(x, s, t) ==
    LET total == RSum(s) IN x[1] * total[2] * t = total[1] * x[2]

\* C15: when a level with t >= 1 trials has ended, t per-trial values of each
\* kind were recorded, every per-trial throughput is the level over that
\* trial's elapsed time, and the level's reported latency and throughput are
\* one t-th of the sum of the per-trial values.
LevelIsMeanOfTrials ==
    (pc = "for_steps" /\ level_idx >= 1 /\ iterations >= 1) =>
        /\ Len(iter_latencies) = iterations
        /\ Len(iter_throughputs) = iterations
        /\ \A j \in 1..Len(iter_throughputs) :
              \E elapsed \in 1..MaxTime :
                  iter_throughputs[j] = Rat(num_requests, elapsed)
        /\ IsMeanOf(Last(latencies), iter_latencies, iterations)
        /\ IsMeanOf(Last(throughputs), iter_throughputs, iterations)

\* Two trials of one request lasting 1 and 2 ticks: the level's throughput is
\* (1/1 + 1/2) / 2 = 3/4, where 2 requests over 3 ticks would give 2/3.
LevelIsMeanOfTrialsWitness ==
    /\ pc = "for_steps"
    /\ iterations = 2
    /\ num_requests = 1
    /\ iter_throughputs = << <<1, 1>>, <<1, 2>> >>
    /\ Last(throughputs) = <<3, 4>>

\* A step of a pool thread: a request starts or ends.
WorkerStep ==
    /\ Len(futures') = Len(futures)
    /\ \E i \in 1..Len(futures) : futures'[i].st # futures[i].st

\* A step in which the controller takes the result of one finished request
\* from its future and puts it at the end of the batch.
ControllerTakes ==
    \E i \in 1..Len(futures) :
        /\ futures[i].st = "done"
        /\ ~futures[i].got /\ futures'[i].got
        /\ latencies_batch' = Append(latencies_batch, futures[i].lat)

\* C16: no step changes the payload, every request that has been started was
\* given that payload, a step of a worker changes nothing but its own future
\* (no variable of the controller, no accumulator, no report list), and the
\* batch grows only by the controller taking a worker's returned latency.
PayloadSharedReadOnly ==
    [][/\ payload' = payload
       /\ \A i \in 1..Len(futures') :
             futures'[i].st # "pending" => futures'[i].data = payload'
       /\ WorkerStep =>
             UNCHANGED <<args, pc, loop, trial, latencies_batch, accum, report,
                         error>>
       /\ (latencies_batch' # latencies_batch /\ latencies_batch' # <<>>) =>
             ControllerTakes]_vars

PayloadSharedReadOnlyWitness ==
    /\ pc = "after_with"
    /\ num_requests = 2
    /\ payload = "payload"
    /\ \A i \in 1..2 : futures[i].data = payload /\ futures[i].got
    /\ Len(latencies_batch) = 2

\* The controller is inside the body of the loop over the levels.
InLevel == pc \in {"for_iter", "submit", "collect", "exit_with", "after_with"}

\* C17: the levels run one after the other in the order of steps. While a
\* level is running, or a request is queued or in flight, the level is
\* steps[level_idx], the results of exactly the level_idx - 1 levels before
\* it are in the report, and the requests issued so far are all the requests
\* of those levels plus the ones this level has issued.
LevelsInOrder ==
    /\ level_idx \in 0..Len(steps)
    /\ ~Quiet => InLevel
    /\ InLevel =>
          /\ level_idx >= 1
          /\ num_requests = steps[level_idx]
          /\ request_counts = SubSeq(steps, 1, level_idx - 1)
          /\ Len(latencies) = level_idx - 1
          /\ Len(throughputs) = level_idx - 1
          /\ invocations =
                iterations * SumSeq(SubSeq(steps, 1, level_idx - 1)) + level_calls

\* A request of the second level is in flight; the first level, of another
\* size, is in the report.
LevelsInOrderWitness ==
    /\ level_idx = 2
    /\ Running # {}
    /\ request_counts = <<steps[1]>>
    /\ steps[1] # steps[2]

\* C20: when the failure of a request has reached the caller, all
\* num_requests requests of the failing trial were submitted, each made its
\* one call and ran to its end (returned or raised), and the calls made in
\* the run are those of the trials up to and including the failing one, so
\* none belongs to a later trial or level.
FailureLetsTrialFinish ==
    (pc = "raised" /\ error = "EndpointError") =>
        /\ Len(futures) = num_requests
        /\ \A i \in 1..Len(futures) :
              futures[i].st \in {"done", "failed"} /\ futures[i].calls = 1
        /\ level_calls = (iter_idx + 1) * num_requests
        /\ invocations =
              iterations * SumSeq(SubSeq(steps, 1, level_idx - 1)) + level_calls
        /\ trial_no = (level_idx - 1) * iterations + iter_idx + 1

\* The first of two requests failed; the second ran to its end although its
\* result was never taken.
FailureLetsTrialFinishWitness ==
    /\ pc = "raised"
    /\ error = "EndpointError"
    /\ num_requests = 2
    /\ futures[1].st = "failed"
    /\ futures[2].st = "done" /\ ~futures[2].got

\* C18 as stated: the levels the benchmark cell configures are the powers 2^x
\* for every x from min_requests up to max_requests in steps of step_size, so
\* min_requests = 0 gives a smallest level of 1 and max_requests = 9 a largest
\* level of 512.
LevelsReachMaxRequests ==
    cell = "benchmark_run" =>
        \A x \in min_requests..max_requests :
            (x - min_requests) % step_size = 0 =>
                \E k \in 1..Len(steps) : steps[k] = Pow2(x)

\* C19 as stated: every invocation of the endpoint, by the test cell or by
\* the benchmark, is issued when the endpoint deploy created is in service.
InvokedOnlyInService == \A c \in invoked : c[2] = "InService"

\* C21: a run in which an endpoint call has failed hands nothing to the
\* caller, whatever levels it had completed before; the caller receives the
\* three lists only from a run without a failure, and then with one entry
\* for every level.
NoPartialReport ==
    /\ (failures > 0 \/ error # "none") => ReturnValue = <<>>
    /\ ReturnValue # <<>> =>
          /\ failures = 0
          /\ \A k \in 1..3 : Len(ReturnValue[k]) = Len(steps)

\* A call of the second level failed; the first level's result had been
\* computed and is lost with the run.
NoPartialReportWitness ==
    /\ pc = "raised"
    /\ error = "EndpointError"
    /\ level_idx = 2
    /\ Len(request_counts) = 1

\* C22: in the trial just recorded the elapsed time is at least the latency
\* of every request of the trial, and the trial's throughput is at most
\* num_requests over the latency of any request, the largest included.
ElapsedCoversRequests ==
    (pc = "for_iter" /\ iter_idx >= 1) =>
        \A i \in 1..Len(futures) :
            /\ futures[i].timed
            /\ futures[i].lat <= total_time
            /\ futures[i].lat > 0 =>
                  RLeq(Last(iter_throughputs), Rat(num_requests, futures[i].lat))

\* A trial of two requests, one as long as the trial and one shorter.
ElapsedCoversRequestsWitness ==
    /\ pc = "for_iter"
    /\ iter_idx >= 1
    /\ num_requests = 2
    /\ futures[1].lat = 1
    /\ futures[2].lat = 2
    /\ total_time = 2

\* C23 as stated: whenever the elapsed time of a trial is read it is
\* strictly positive, so num_requests / total_time is defined and the run
\* never ends with a division by zero.
ElapsedPositive ==
    /\ pc = "after_with" => Elapsed > 0
    /\ error # "ZeroDivisionError"

\* The sequence s is the beginning of the sequence t.
IsPrefix(s, t) == Len(s) <= Len(t) /\ SubSeq(t, 1, Len(s)) = s

\* C24: a step that enters a level leaves both accumulators empty; inside a
\* level they hold one value per trial of this level and nothing else; the
\* entry a level adds to the report is the mean over these values; and no
\* step changes or removes an entry the report already has.
LevelsIsolated ==
    [][/\ level_idx' # level_idx =>
             iter_latencies' = <<>> /\ iter_throughputs' = <<>>
       /\ InLevel' =>
             Len(iter_latencies') = iter_idx' /\ Len(iter_throughputs') = iter_idx'
       /\ Len(latencies') # Len(latencies) =>
             /\ Last(latencies') = Mean(iter_latencies)
             /\ Last(throughputs') = Mean(iter_throughputs)
       /\ IsPrefix(latencies, latencies')
       /\ IsPrefix(throughputs, throughputs')
       /\ IsPrefix(request_counts, request_counts')]_vars

\* The second level starts with empty accumulators after a first level whose
\* trial left a result in the report.
LevelsIsolatedWitness ==
    /\ level_idx = 2
    /\ pc = "for_iter"
    /\ iter_idx = 0
    /\ iterations >= 1
    /\ trial_no >= 1
    /\ Len(latencies) = 1
    /\ iter_latencies = <<>>

\* The controller is collecting, request i has finished and its result has
\* not been taken.
Untaken(i) ==
    /\ pc = "collect"
    /\ i \in 1..Len(futures)
    /\ futures[i].st \in {"done", "failed"}
    /\ ~futures[i].got

\* C25: under fair scheduling, with every call eventually returning or
\* raising, benchmark_predictor eventually ends, by returning the report or
\* with an exception, and when a request has finished while the controller
\* collects, the collection eventually ends.
Termination ==
    /\ <>Terminated
    /\ (\E i \in Slots : Untaken(i)) ~> (pc # "collect")

\* A run of two positive levels has returned.
TerminationWitness ==
    /\ pc = "returned"
    /\ Len(steps) = 2
    /\ \A k \in 1..2 : steps[k] > 0
    /\ iterations >= 1
    /\ trial_no >= 2

\* C26 as stated: every name the test cell, the benchmark cell and the
\* cleanup cell use has been bound by the deploy step, so no cell ends with
\* a NameError, and a notebook run to its end has deleted its endpoint.
HandlesConsistent ==
    /\ "NameError" \notin nb_errors
    /\ cell = "end" => endpoint = "Deleted"

\* C27 as stated: once the benchmark cell has built its payload, the payload
\* carries client_batch_size items, and every row of the benchmark table
\* records that number.
PayloadCarriesBatch ==
    /\ client_batch_size > 0 => items = client_batch_size
    /\ \A k \in 1..Len(recorded) : recorded[k] = items
====
